---- MODULE Spec2Model ----
(***************************************************************************)
(* Commitment engines of ZKP-Polynomial-Vs-IMT:                            *)
(*   - IMT/utils/merkle_tree.ts       IncrementalMerkleTree (SpecTree)     *)
(*   - IMT/utils/test_data_generator.js  IncrementalMerkleTree (SpecGen)   *)
(*   - polynomial_equation.ts         addRoot / removeRoot (SpecPoly)      *)
(*   - polynomial/utils/benchmark_poly_helper.js  batches (SpecBatch)      *)
(*                                                                         *)
(* Field elements that enter the Merkle tree are terms: a plain integer n  *)
(* is <<0, n>>, and the value of the external poseidon2Hash on k inputs is *)
(* <<k>> followed by the inputs (prefix notation, uniquely decodable, so   *)
(* the external hash is collision-free, as the repository assumes).        *)
(* Polynomial coefficients are plain integers modulo bn_254_fp.            *)
(***************************************************************************)
EXTENDS Integers, Sequences, FiniteSets, TLC

VARIABLES leaves, nodes, nextIndex, treeOut, mixCalls,
          poly, fed, rooted, polyHist,
          batches, batchRoots, userMap, batchOut,
          proof, upd, bench

\* The tree, and with it the benchmark variable that only runBenchmark
\* writes.
treeVars == <<leaves, nodes, nextIndex, treeOut, mixCalls, upd, bench>>

\* What the tree operations leave alone.
otherVars ==
    <<poly, fed, rooted, polyHist, batches, batchRoots, userMap, batchOut, proof,
      upd, bench>>

polyVars == <<poly, fed, rooted, polyHist>>

batchVars == <<batches, batchRoots, userMap, batchOut>>

vars == <<treeVars, polyVars, batchVars, proof>>

(* ------------------------------ scaling -------------------------------- *)

\* Tree depth of the model (the source compiles 20).
TREE_DEPTH == 2

\* Field modulus of the model (the source uses the BN254 scalar prime).
bn_254_fp == 5

\* Roots per batch in the model (the source compiles 128).
MAX_POLY_DEGREE == 2

\* Leaves the test_data_generator.js tree may take beyond 2^TREE_DEPTH.
MaxOverflow == 1

\* Coefficients of a product of roots that addRoot is still called on.
MaxGrownLen == 4

\* Leaves a tree takes while its mutations are followed level by level.
MaxStepLeaves == 3

\* Entries of a pathIndices array a prover makes up are 0..MaxEntry.
MaxEntry == 2

\* Users the persisted users file holds when the benchmark starts.
MaxFileUsers == 2

\* Integers handed to mod and toPositiveField are -MaxAbsInt..MaxAbsInt.
MaxAbsInt == 27

\* Longest coefficient sequence a caller hands to the polynomial functions.
MaxPolyLen == 3

\* Longest root sequence handed to interpolatePolynomial.
MaxRoots == 3

\* Secrets offered to addSecretsToBatches are 0..MaxSecret.
MaxSecret == 2

\* Longest newSecrets argument of one addSecretsToBatches call.
MaxNewSecrets == 2

\* Roots the batch table holds in total before the model stops adding.
MaxTotalRoots == 5

(* --------------------------- field arithmetic -------------------------- *)

\* JavaScript BigInt remainder: truncated, takes the sign of the dividend.
JsRem(x, f) == IF x >= 0 THEN x % f ELSE -((-x) % f)

mod_noFix(x) == JsRem(x, bn_254_fp)

mod(x) ==
    LET result == JsRem(x, bn_254_fp)
    IN  IF result >= 0 THEN result ELSE result + bn_254_fp

(* ------------------------------ strings -------------------------------- *)

DigitChars == <<"0", "1", "2", "3", "4", "5", "6", "7", "8", "9">>

RECURSIVE natToString(_)
natToString(n) ==
    IF n < 10 THEN <<DigitChars[n + 1]>>
    ELSE natToString(n \div 10) \o <<DigitChars[(n % 10) + 1]>>

\* Number.prototype.toString / BigInt.prototype.toString, base 10.
toString(n) == IF n < 0 THEN <<"-">> \o natToString(-n) ELSE natToString(n)

(* ------------------------------- hashing ------------------------------- *)

\* A plain integer used as a field element.
Atom(n) == <<0, n>>

\* The JavaScript value undefined (a missing array slot or map key).
undefined == <<>>

\* a ?? b
Nullish(a, b) == IF a = undefined THEN b ELSE a

\* mod applied to a tree value: hash outputs are canonical already.
modValue(v) == IF v[1] = 0 THEN Atom(mod(v[2])) ELSE v

RECURSIVE Flatten(_)
Flatten(inputs) ==
    IF inputs = <<>> THEN <<>> ELSE Head(inputs) \o Flatten(Tail(inputs))

\* External @zkpassport/poseidon2 primitive, collision-free by assumption.
poseidon2Hash(inputs) == <<Len(inputs)>> \o Flatten(inputs)

poseidon2(inputs) ==
    modValue(poseidon2Hash([i \in 1..Len(inputs) |-> modValue(inputs[i])]))

hashLeaf(secret) == poseidon2(<<secret>>)

hashPair(left, right) == poseidon2(<<left, right>>)

getZeroValue == poseidon2(<<Atom(0)>>)

RECURSIVE zeroHashAt(_)
zeroHashAt(i) ==
    IF i = 0 THEN getZeroValue
    ELSE hashPair(zeroHashAt(i - 1), zeroHashAt(i - 1))

computeZeroHashes == [i \in 0..TREE_DEPTH |-> zeroHashAt(i)]

ZERO_HASHES == computeZeroHashes

MAX_LEAVES == 2 ^ TREE_DEPTH

(* ----------------------- merkle_tree.ts: the tree ---------------------- *)

\* this.leaves[index], undefined outside the populated slots.
leafAt(lvs, index) ==
    IF index >= 0 /\ index < Len(lvs) THEN lvs[index + 1] ELSE undefined

\* this.leaves[index] = leaf, for index <= leaves.length.
setLeaf(lvs, index, leaf) ==
    IF index = Len(lvs) THEN Append(lvs, leaf)
    ELSE [lvs EXCEPT ![index + 1] = leaf]

\* A key that leaves the level out.
getNodeKey_noLevel(level, index) == toString(index)

getNodeKey(level, index) == toString(level) \o <<":">> \o toString(index)

getNode(nds, level, index) ==
    IF getNodeKey(level, index) \in DOMAIN nds
    THEN nds[getNodeKey(level, index)]
    ELSE undefined

setNode(nds, level, index, value) ==
    (getNodeKey(level, index) :> value) @@ nds

RECURSIVE updatePathLoop(_, _, _, _, _, _)
updatePathLoop(lvs, nds, top, level, currentIndex, currentHash) ==
    IF level >= top THEN nds
    ELSE
        LET isRight == JsRem(currentIndex, 2) = 1
            siblingIndex ==
                IF isRight THEN currentIndex - 1 ELSE currentIndex + 1
            parentIndex == currentIndex \div 2
            siblingHash ==
                IF level = 0
                THEN Nullish(leafAt(lvs, siblingIndex), getZeroValue)
                ELSE Nullish(getNode(nds, level, siblingIndex),
                             ZERO_HASHES[level])
            left == IF isRight THEN siblingHash ELSE currentHash
            right == IF isRight THEN currentHash ELSE siblingHash
            parentHash == hashPair(left, right)
        IN  updatePathLoop(lvs,
                           setNode(nds, level + 1, parentIndex, parentHash),
                           top, level + 1, parentIndex, parentHash)

\* A path update that stops one level below the root.
updatePath_short(lvs, nds, index) ==
    updatePathLoop(lvs, nds, TREE_DEPTH - 1, 0, index, leafAt(lvs, index))

RECURSIVE updatePathLoop_noOrder(_, _, _, _, _)
updatePathLoop_noOrder(lvs, nds, level, currentIndex, currentHash) ==
    IF level >= TREE_DEPTH THEN nds
    ELSE
        LET isRight == JsRem(currentIndex, 2) = 1
            siblingIndex ==
                IF isRight THEN currentIndex - 1 ELSE currentIndex + 1
            parentIndex == currentIndex \div 2
            siblingHash ==
                IF level = 0
                THEN Nullish(leafAt(lvs, siblingIndex), getZeroValue)
                ELSE Nullish(getNode(nds, level, siblingIndex),
                             ZERO_HASHES[level])
            parentHash == hashPair(currentHash, siblingHash)
        IN  updatePathLoop_noOrder(lvs,
                setNode(nds, level + 1, parentIndex, parentHash),
                level + 1, parentIndex, parentHash)

\* A path update that always hashes the current node on the left.
updatePath_noOrder(lvs, nds, index) ==
    updatePathLoop_noOrder(lvs, nds, 0, index, leafAt(lvs, index))

\* updatePath(index): the node map after recomputing the ancestors.
updatePath(lvs, nds, index) ==
    updatePathLoop(lvs, nds, TREE_DEPTH, 0, index, leafAt(lvs, index))

\* A root read one level too low.
getRootOf_below(nds, nxt) ==
    IF nxt = 0 THEN ZERO_HASHES[TREE_DEPTH]
    ELSE Nullish(getNode(nds, TREE_DEPTH - 1, 0), ZERO_HASHES[TREE_DEPTH])

getRootOf(nds, nxt) ==
    IF nxt = 0 THEN ZERO_HASHES[TREE_DEPTH]
    ELSE Nullish(getNode(nds, TREE_DEPTH, 0), ZERO_HASHES[TREE_DEPTH])

getRoot == getRootOf(nodes, nextIndex)

RECURSIVE merklePathLoop(_, _, _, _, _)
merklePathLoop(lvs, nds, level, currentIndex, acc) ==
    IF level >= TREE_DEPTH THEN acc
    ELSE
        LET isRight == JsRem(currentIndex, 2) = 1
            siblingIndex ==
                IF isRight THEN currentIndex - 1 ELSE currentIndex + 1
            siblingHash ==
                IF level = 0
                THEN Nullish(leafAt(lvs, siblingIndex), getZeroValue)
                ELSE Nullish(getNode(nds, level, siblingIndex),
                             ZERO_HASHES[level])
        IN  merklePathLoop(lvs, nds, level + 1, currentIndex \div 2,
                [path |-> Append(acc.path, siblingHash),
                 pathIndices |->
                     Append(acc.pathIndices, IF isRight THEN 1 ELSE 0)])

\* A path whose direction bits are inverted (isRight ? 0n : 1n).
merklePathOf_inverted(lvs, nds, index) ==
    LET mp == merklePathLoop(lvs, nds, 0, index,
                             [path |-> <<>>, pathIndices |-> <<>>])
    IN  [mp EXCEPT !.pathIndices =
             [k \in 1..Len(mp.pathIndices) |-> 1 - mp.pathIndices[k]]]

\* A path read for the sibling's position instead of the node's own.
merklePathOf_sibling(lvs, nds, index) ==
    merklePathLoop(lvs, nds, 0, IF JsRem(index, 2) = 1 THEN index - 1
                                ELSE index + 1,
                   [path |-> <<>>, pathIndices |-> <<>>])

\* The loop of getMerklePath (both implementations share it).
merklePathOf(lvs, nds, index) ==
    merklePathLoop(lvs, nds, 0, index, [path |-> <<>>, pathIndices |-> <<>>])

\* getMerklePath(index) of merkle_tree.ts on the current tree, index in range.
getMerklePath(index) == merklePathOf(leaves, nodes, index)

RECURSIVE reconstructIndex(_, _, _)
reconstructIndex(pathIndices, i, powerOfTwo) ==
    IF i > TREE_DEPTH THEN 0
    ELSE pathIndices[i] * powerOfTwo
         + reconstructIndex(pathIndices, i + 1, powerOfTwo * 2)

RECURSIVE replayPath(_, _, _, _)
replayPath(currentHash, path, pathIndices, i) ==
    IF i > TREE_DEPTH THEN currentHash
    ELSE
        LET isRight == pathIndices[i] = 1
            left == IF isRight THEN path[i] ELSE currentHash
            right == IF isRight THEN currentHash ELSE path[i]
        IN  replayPath(hashPair(left, right), path, pathIndices, i + 1)

\* A verifier that skips the comparison of index and pathIndices.
verifyMerkleProof_noIndex(leaf, index, path, pathIndices, root) ==
    IF Len(path) # TREE_DEPTH \/ Len(pathIndices) # TREE_DEPTH THEN FALSE
    ELSE replayPath(leaf, path, pathIndices, 1) = root

verifyMerkleProof(leaf, index, path, pathIndices, root) ==
    IF Len(path) # TREE_DEPTH \/ Len(pathIndices) # TREE_DEPTH THEN FALSE
    ELSE IF reconstructIndex(pathIndices, 1, 1) # index THEN FALSE
    ELSE replayPath(leaf, path, pathIndices, 1) = root

\* The poseidon2 evaluations of one updatePath(index): hashPair at every
\* level, and getZeroValue() when the sibling leaf is undefined.
RECURSIVE updatePathMixesLoop(_, _, _)
updatePathMixesLoop(lvs, level, currentIndex) ==
    IF level >= TREE_DEPTH THEN 0
    ELSE
        LET isRight == JsRem(currentIndex, 2) = 1
            siblingIndex ==
                IF isRight THEN currentIndex - 1 ELSE currentIndex + 1
            fallback ==
                IF level = 0 /\ leafAt(lvs, siblingIndex) = undefined
                THEN 1 ELSE 0
        IN  fallback + 1
            + updatePathMixesLoop(lvs, level + 1, currentIndex \div 2)

updatePathMixes(lvs, index) == updatePathMixesLoop(lvs, 0, index)

\* The poseidon2 evaluations of one getMerklePath(index): getZeroValue()
\* when the sibling leaf is undefined.
merklePathMixes(lvs, index) ==
    LET siblingIndex == IF JsRem(index, 2) = 1 THEN index - 1 ELSE index + 1
    IN  IF TREE_DEPTH > 0 /\ leafAt(lvs, siblingIndex) = undefined
        THEN 1 ELSE 0

(* ------------------------------ tree inputs ---------------------------- *)

\* Leaves offered to insert and update: a member's leaf and the zero leaf.
LeafValues == {hashLeaf(Atom(1)), getZeroValue}

\* Indices offered to update, delete and getMerklePath.
IndexInputs == -1..MAX_LEAVES

NoResult == <<>>

Outcome(op, arg, err, ret) == [op |-> op, arg |-> arg, err |-> err, ret |-> ret]

\* The mutation in progress: the public method, the leaf index, and the
\* loop variables level, currentIndex and currentHash of updatePath.
Update_at(op, index, level, currentIndex, currentHash) ==
    [active |-> TRUE, op |-> op, index |-> index, level |-> level,
     currentIndex |-> currentIndex, currentHash |-> currentHash]

NoUpdate ==
    [active |-> FALSE, op |-> "none", index |-> 0, level |-> 0,
     currentIndex |-> 0, currentHash |-> undefined]

TreeInit ==
    /\ leaves = <<>>
    /\ nodes = <<>>
    /\ nextIndex = 0
    /\ treeOut = Outcome("new", 0, "none", NoResult)
    /\ mixCalls = 0
    /\ upd = NoUpdate

(* ------------------------ merkle_tree.ts: actions ---------------------- *)

\* An insert that reports its position counting from one.
Insert_oneBased(leaf) ==
    /\ IF nextIndex >= MAX_LEAVES
       THEN /\ treeOut' = Outcome("insert", nextIndex, "TreeFull", NoResult)
            /\ mixCalls' = 0
            /\ UNCHANGED <<leaves, nodes, nextIndex>>
       ELSE LET index == nextIndex
                lvs == setLeaf(leaves, index, leaf)
            IN  /\ leaves' = lvs
                /\ nodes' = updatePath(lvs, nodes, index)
                /\ nextIndex' = nextIndex + 1
                /\ treeOut' = Outcome("insert", index, "none", <<index + 1>>)
                /\ mixCalls' = updatePathMixes(lvs, index)
    /\ UNCHANGED otherVars

Insert(leaf) ==
    /\ IF nextIndex >= MAX_LEAVES
       THEN /\ treeOut' = Outcome("insert", nextIndex, "TreeFull", NoResult)
            /\ mixCalls' = 0
            /\ UNCHANGED <<leaves, nodes, nextIndex>>
       ELSE LET index == nextIndex
                lvs == setLeaf(leaves, index, leaf)
            IN  /\ leaves' = lvs
                /\ nodes' = updatePath(lvs, nodes, index)
                /\ nextIndex' = nextIndex + 1
                /\ treeOut' = Outcome("insert", index, "none", <<index>>)
                /\ mixCalls' = updatePathMixes(lvs, index)
    /\ UNCHANGED otherVars

\* The body of update(index, newLeaf), reported under the public name op;
\* argMixes counts the hashes the caller evaluated to build newLeaf.
UpdateAs(op, index, newLeaf, argMixes) ==
    IF index < 0 \/ index >= nextIndex
    THEN /\ treeOut' = Outcome(op, index, "IndexOutOfRange", NoResult)
         /\ mixCalls' = argMixes
         /\ UNCHANGED <<leaves, nodes, nextIndex>>
    ELSE LET lvs == setLeaf(leaves, index, newLeaf)
         IN  /\ leaves' = lvs
             /\ nodes' = updatePath(lvs, nodes, index)
             /\ UNCHANGED nextIndex
             /\ treeOut' = Outcome(op, index, "none", NoResult)
             /\ mixCalls' = argMixes + updatePathMixes(lvs, index)

Update(index, newLeaf) ==
    UpdateAs("update", index, newLeaf, 0) /\ UNCHANGED otherVars

\* A delete that stores the number 0 instead of the zero leaf.
Delete_rawZero(index) ==
    UpdateAs("delete", index, Atom(0), 0) /\ UNCHANGED otherVars

\* delete evaluates getZeroValue() before it calls update.
Delete(index) ==
    UpdateAs("delete", index, getZeroValue, 1) /\ UNCHANGED otherVars

GetMerklePath(index) ==
    /\ IF index < 0 \/ index >= nextIndex
       THEN treeOut' = Outcome("getMerklePath", index, "IndexOutOfRange",
                               NoResult)
       ELSE treeOut' = Outcome("getMerklePath", index, "none",
                               getMerklePath(index))
    /\ mixCalls' = IF index < 0 \/ index >= nextIndex THEN 0
                   ELSE merklePathMixes(leaves, index)
    /\ UNCHANGED <<leaves, nodes, nextIndex>>
    /\ UNCHANGED otherVars

(* ------------- merkle_tree.ts: mutations level by level ---------------- *)

\* What the steps of a mutation and the reads between them leave alone.
stepFrame ==
    <<poly, fed, rooted, polyHist, batches, batchRoots, userMap, batchOut,
      proof, mixCalls, bench>>

\* insert up to the call of updatePath: the leaf is written.
step_insert(leaf) ==
    /\ ~upd.active
    /\ nextIndex < MAX_LEAVES
    /\ nextIndex < MaxStepLeaves
    /\ leaves' = setLeaf(leaves, nextIndex, leaf)
    /\ upd' = Update_at("insert", nextIndex, 0, nextIndex, leaf)
    /\ treeOut' = Outcome("insert", nextIndex, "pending", NoResult)
    /\ UNCHANGED <<nodes, nextIndex>>
    /\ UNCHANGED stepFrame

\* update up to the call of updatePath: the leaf is overwritten.
step_update(index, newLeaf) ==
    /\ ~upd.active
    /\ index >= 0
    /\ index < nextIndex
    /\ leaves' = setLeaf(leaves, index, newLeaf)
    /\ upd' = Update_at("update", index, 0, index, newLeaf)
    /\ treeOut' = Outcome("update", index, "pending", NoResult)
    /\ UNCHANGED <<nodes, nextIndex>>
    /\ UNCHANGED stepFrame

\* updatePath with every parent hashed with the current node on the left.
step_updatePath_noOrder ==
    /\ upd.active
    /\ upd.level < TREE_DEPTH
    /\ LET level == upd.level
           currentIndex == upd.currentIndex
           isRight == JsRem(currentIndex, 2) = 1
           siblingIndex ==
               IF isRight THEN currentIndex - 1 ELSE currentIndex + 1
           parentIndex == currentIndex \div 2
           siblingHash ==
               IF level = 0
               THEN Nullish(leafAt(leaves, siblingIndex), getZeroValue)
               ELSE Nullish(getNode(nodes, level, siblingIndex),
                            ZERO_HASHES[level])
           parentHash == hashPair(upd.currentHash, siblingHash)
       IN  /\ nodes' = setNode(nodes, level + 1, parentIndex, parentHash)
           /\ upd' = Update_at(upd.op, upd.index, level + 1, parentIndex,
                               parentHash)
    /\ treeOut' = Outcome(upd.op, upd.index, "pending", NoResult)
    /\ UNCHANGED <<leaves, nextIndex>>
    /\ UNCHANGED stepFrame

\* One iteration of the loop of updatePath.
step_updatePath ==
    /\ upd.active
    /\ upd.level < TREE_DEPTH
    /\ LET level == upd.level
           currentIndex == upd.currentIndex
           isRight == JsRem(currentIndex, 2) = 1
           siblingIndex ==
               IF isRight THEN currentIndex - 1 ELSE currentIndex + 1
           parentIndex == currentIndex \div 2
           siblingHash ==
               IF level = 0
               THEN Nullish(leafAt(leaves, siblingIndex), getZeroValue)
               ELSE Nullish(getNode(nodes, level, siblingIndex),
                            ZERO_HASHES[level])
           left == IF isRight THEN siblingHash ELSE upd.currentHash
           right == IF isRight THEN upd.currentHash ELSE siblingHash
           parentHash == hashPair(left, right)
       IN  /\ nodes' = setNode(nodes, level + 1, parentIndex, parentHash)
           /\ upd' = Update_at(upd.op, upd.index, level + 1, parentIndex,
                               parentHash)
    /\ treeOut' = Outcome(upd.op, upd.index, "pending", NoResult)
    /\ UNCHANGED <<leaves, nextIndex>>
    /\ UNCHANGED stepFrame

\* The loop is over: insert counts the leaf and returns its index, update
\* returns.
step_return ==
    /\ upd.active
    /\ upd.level >= TREE_DEPTH
    /\ nextIndex' = IF upd.op = "insert" THEN nextIndex + 1 ELSE nextIndex
    /\ treeOut' = Outcome(upd.op, upd.index, "none",
                          IF upd.op = "insert" THEN <<upd.index>> ELSE NoResult)
    /\ upd' = NoUpdate
    /\ UNCHANGED <<leaves, nodes>>
    /\ UNCHANGED stepFrame

\* A reader: getMerklePath(index) and getRoot() with nothing in between,
\* whether or not a mutation is in progress.
step_read(index) ==
    /\ index >= 0
    /\ index < nextIndex
    /\ treeOut' = Outcome("read", index, "none",
                          [leaf |-> leafAt(leaves, index),
                           path |-> getMerklePath(index).path,
                           pathIndices |-> getMerklePath(index).pathIndices,
                           root |-> getRoot])
    /\ UNCHANGED <<leaves, nodes, nextIndex, upd>>
    /\ UNCHANGED stepFrame

(* ------------------- verifyMerkleProof, standalone --------------------- *)

\* One call of verifyMerkleProof: its five arguments, whether the call has
\* been made, and what it returned.
ProofCall(leaf, index, path, pathIndices, root) ==
    [leaf |-> leaf, index |-> index, path |-> path,
     pathIndices |-> pathIndices, root |-> root,
     called |-> FALSE, result |-> FALSE]

\* Sequences over S whose length is depth - 1, depth or depth + 1.
NearDepthSeqs(S) ==
    UNION {[1..k -> S] : k \in (TREE_DEPTH - 1)..(TREE_DEPTH + 1)}

\* A direction bit: 0 when the node is a left child, 1 when it is a right one.
DirectionBits == {0, 1}

\* Roots offered with a leaf and a path: the zero root and, when the
\* lengths allow the replay, the root the leaf and the path hash to.
RootInputs_for(leaf, path, pathIndices) ==
    {ZERO_HASHES[TREE_DEPTH]} \cup
        IF Len(path) = TREE_DEPTH /\ Len(pathIndices) = TREE_DEPTH
        THEN {replayPath(leaf, path, pathIndices, 1)}
        ELSE {}

ProofInit ==
    \E leaf \in LeafValues, index \in IndexInputs,
       path \in NearDepthSeqs(LeafValues),
       pathIndices \in NearDepthSeqs(DirectionBits) :
        \E root \in RootInputs_for(leaf, path, pathIndices) :
            proof = ProofCall(leaf, index, path, pathIndices, root)

ProofIdle ==
    proof = ProofCall(getZeroValue, 0, <<>>, <<>>, ZERO_HASHES[TREE_DEPTH])

VerifyMerkleProof ==
    /\ ~proof.called
    /\ proof' = [proof EXCEPT
                     !.called = TRUE,
                     !.result = verifyMerkleProof(proof.leaf, proof.index,
                                    proof.path, proof.pathIndices, proof.root)]
    /\ UNCHANGED <<treeVars, polyVars, batchVars>>

(* ------------------ test_data_generator.js: the tree ------------------- *)

gen_insert(leaf) ==
    /\ nextIndex < MAX_LEAVES + MaxOverflow
    /\ LET index == nextIndex
           lvs == setLeaf(leaves, index, leaf)
       IN  /\ leaves' = lvs
           /\ nodes' = updatePath(lvs, nodes, index)
           /\ nextIndex' = nextIndex + 1
           /\ treeOut' = Outcome("insert", index, "none", <<index>>)
           /\ mixCalls' = updatePathMixes(lvs, index)
    /\ UNCHANGED otherVars

gen_getMerklePath(index) ==
    /\ treeOut' = Outcome("getMerklePath", index, "none",
                          merklePathOf(leaves, nodes, index))
    /\ mixCalls' = merklePathMixes(leaves, index)
    /\ UNCHANGED <<leaves, nodes, nextIndex>>
    /\ UNCHANGED otherVars

(* --------------------- polynomial_equation.ts ------------------------- *)

initial_polynomial == <<1>>

Zeros(n) == [i \in 1..n |-> 0]

\* The inner loop "multiply by (x - root)"; i is the 0-based loop index.
RECURSIVE multiplyLoop(_, _, _, _)
multiplyLoop(polynomial, root, i, newPolynomial) ==
    IF i >= Len(polynomial) THEN newPolynomial
    ELSE
        LET shifted ==
                [newPolynomial EXCEPT
                    ![i + 2] = mod(newPolynomial[i + 2] + polynomial[i + 1])]
            scaled ==
                [shifted EXCEPT
                    ![i + 1] = mod(shifted[i + 1]
                                   - mod(polynomial[i + 1] * root))]
        IN  multiplyLoop(polynomial, root, i + 1, scaled)

RECURSIVE interpolateLoop(_, _, _)
interpolateLoop(roots, k, polynomial) ==
    IF k > Len(roots) THEN polynomial
    ELSE interpolateLoop(roots, k + 1,
             multiplyLoop(polynomial, roots[k], 0,
                          Zeros(Len(polynomial) + 1)))

\* An interpolation that never multiplies in the first root.
interpolatePolynomial_skipFirst(roots) == interpolateLoop(roots, 2, <<1>>)

interpolatePolynomial(roots) == interpolateLoop(roots, 1, <<1>>)

(* ---- polynomial/utils/test_data_generator.js: interpolatePolynomial --- *)

toPositiveField(value) ==
    LET r == JsRem(value, bn_254_fp)
    IN  IF r >= 0 THEN r ELSE r + bn_254_fp

\* The inner loop of the generator: the remainders keep the sign JavaScript
\* gives them until the final map.
RECURSIVE gen_multiplyLoop(_, _, _, _)
gen_multiplyLoop(polynomial, root, i, newPoly) ==
    IF i >= Len(polynomial) THEN newPoly
    ELSE
        LET scaled ==
                [newPoly EXCEPT
                    ![i + 1] = JsRem(newPoly[i + 1] - polynomial[i + 1] * root,
                                     bn_254_fp)]
            shifted ==
                [scaled EXCEPT
                    ![i + 2] = JsRem(scaled[i + 2] + polynomial[i + 1],
                                     bn_254_fp)]
        IN  gen_multiplyLoop(polynomial, root, i + 1, shifted)

RECURSIVE gen_interpolateLoop(_, _, _)
gen_interpolateLoop(roots, k, polynomial) ==
    IF k > Len(roots) THEN polynomial
    ELSE gen_interpolateLoop(roots, k + 1,
             gen_multiplyLoop(polynomial, roots[k], 0,
                              Zeros(Len(polynomial) + 1)))

gen_interpolatePolynomial(roots) ==
    LET polynomial == gen_interpolateLoop(roots, 1, <<1>>)
    IN  [i \in 1..Len(polynomial) |-> toPositiveField(polynomial[i])]

(* ------------------------- polynomial_equation.ts ---------------------- *)

RECURSIVE addRootLoop(_, _, _, _)
addRootLoop(oldPoly, newRoot, i, newPoly) ==
    IF i >= Len(oldPoly) THEN newPoly
    ELSE
        LET shifted ==
                [newPoly EXCEPT ![i + 2] = mod(newPoly[i + 2] + oldPoly[i + 1])]
            scaled ==
                [shifted EXCEPT
                    ![i + 1] = mod(shifted[i + 1]
                                   - mod(oldPoly[i + 1] * newRoot))]
        IN  addRootLoop(oldPoly, newRoot, i + 1, scaled)

RECURSIVE addRootLoop_plus(_, _, _, _)
addRootLoop_plus(oldPoly, newRoot, i, newPoly) ==
    IF i >= Len(oldPoly) THEN newPoly
    ELSE
        LET shifted ==
                [newPoly EXCEPT ![i + 2] = mod(newPoly[i + 2] + oldPoly[i + 1])]
            scaled ==
                [shifted EXCEPT
                    ![i + 1] = mod(shifted[i + 1]
                                   + mod(oldPoly[i + 1] * newRoot))]
        IN  addRootLoop_plus(oldPoly, newRoot, i + 1, scaled)

\* addRoot with the sign of the constant term wrong: multiplies by (x + r).
addRoot_plus(oldPoly, newRoot) ==
    addRootLoop_plus(oldPoly, newRoot, 0, Zeros(Len(oldPoly) + 1))

\* addRoot multiplying by (newRoot - x) instead of (x - newRoot).
addRoot_negated(oldPoly, newRoot) ==
    LET newPoly == addRootLoop(oldPoly, newRoot, 0, Zeros(Len(oldPoly) + 1))
    IN  [i \in 1..Len(newPoly) |-> mod(0 - newPoly[i])]

addRoot(oldPoly, newRoot) ==
    addRootLoop(oldPoly, newRoot, 0, Zeros(Len(oldPoly) + 1))

\* The results of removeRoot: a thrown Error, null, or the quotient.  oldPoly
\* is the caller's array as the call leaves it.
Thrown(oldPoly) == [tag |-> "throw", value |-> <<>>, oldPoly |-> oldPoly]

Null(oldPoly) == [tag |-> "null", value |-> <<>>, oldPoly |-> oldPoly]

Returned(newPoly, oldPoly) ==
    [tag |-> "ok", value |-> newPoly, oldPoly |-> oldPoly]

\* Synthetic division, i running from n down to 0.
RECURSIVE removeRootLoop(_, _, _, _, _)
removeRootLoop(oldPoly, rootToRemove, i, newPoly, carry) ==
    IF i < 0 THEN Returned(newPoly, oldPoly)
    ELSE
        LET coeff == mod(oldPoly[i + 1] + carry)
        IN  IF i > 0
            THEN removeRootLoop(oldPoly, rootToRemove, i - 1,
                                [newPoly EXCEPT ![i] = coeff],
                                mod(coeff * rootToRemove))
            ELSE IF coeff # 0 THEN Null(oldPoly)
                 ELSE removeRootLoop(oldPoly, rootToRemove, i - 1,
                                     newPoly, carry)

\* A division that never looks at the remainder.
RECURSIVE removeRootLoop_noCheck(_, _, _, _, _)
removeRootLoop_noCheck(oldPoly, rootToRemove, i, newPoly, carry) ==
    IF i <= 0 THEN Returned(newPoly, oldPoly)
    ELSE
        LET coeff == mod(oldPoly[i + 1] + carry)
        IN  removeRootLoop_noCheck(oldPoly, rootToRemove, i - 1,
                                   [newPoly EXCEPT ![i] = coeff],
                                   mod(coeff * rootToRemove))

removeRoot_noCheck(oldPoly, rootToRemove) ==
    LET n == Len(oldPoly) - 1
    IN  IF n <= 0 THEN Thrown(oldPoly)
        ELSE removeRootLoop_noCheck(oldPoly, rootToRemove, n, Zeros(n), 0)

\* A division that drops the carry into the next coefficient.
RECURSIVE removeRootLoop_noCarry(_, _, _, _)
removeRootLoop_noCarry(oldPoly, rootToRemove, i, newPoly) ==
    IF i < 0 THEN Returned(newPoly, oldPoly)
    ELSE
        LET coeff == mod(oldPoly[i + 1])
        IN  IF i > 0
            THEN removeRootLoop_noCarry(oldPoly, rootToRemove, i - 1,
                                        [newPoly EXCEPT ![i] = coeff])
            ELSE Returned(newPoly, oldPoly)

removeRoot_noCarry(oldPoly, rootToRemove) ==
    LET n == Len(oldPoly) - 1
    IN  IF n <= 0 THEN Thrown(oldPoly)
        ELSE removeRootLoop_noCarry(oldPoly, rootToRemove, n, Zeros(n))

\* A division by (x + rootToRemove).
RECURSIVE removeRootLoop_plus(_, _, _, _, _)
removeRootLoop_plus(oldPoly, rootToRemove, i, newPoly, carry) ==
    IF i < 0 THEN Returned(newPoly, oldPoly)
    ELSE
        LET coeff == mod(oldPoly[i + 1] + carry)
        IN  IF i > 0
            THEN removeRootLoop_plus(oldPoly, rootToRemove, i - 1,
                                     [newPoly EXCEPT ![i] = coeff],
                                     mod(0 - coeff * rootToRemove))
            ELSE IF coeff # 0 THEN Null(oldPoly)
                 ELSE removeRootLoop_plus(oldPoly, rootToRemove, i - 1,
                                          newPoly, carry)

removeRoot_plus(oldPoly, rootToRemove) ==
    LET n == Len(oldPoly) - 1
    IN  IF n <= 0 THEN Thrown(oldPoly)
        ELSE removeRootLoop_plus(oldPoly, rootToRemove, n, Zeros(n), 0)

\* A removeRoot that lets a constant polynomial through to the division.
removeRoot_constantAllowed(oldPoly, rootToRemove) ==
    LET n == Len(oldPoly) - 1
    IN  IF n < 0 THEN Thrown(oldPoly)
        ELSE removeRootLoop(oldPoly, rootToRemove, n, Zeros(n), 0)

removeRoot(oldPoly, rootToRemove) ==
    LET n == Len(oldPoly) - 1
    IN  IF n <= 0 THEN Thrown(oldPoly)
        ELSE removeRootLoop(oldPoly, rootToRemove, n, Zeros(n), 0)

RECURSIVE evaluateLoop(_, _, _, _, _)
evaluateLoop(coefficients, root, k, result, rootPower) ==
    IF k > Len(coefficients) THEN result
    ELSE evaluateLoop(coefficients, root, k + 1,
                      mod(result + mod(coefficients[k] * rootPower)),
                      mod(rootPower * root))

verifyPolynomial(coefficients, root) ==
    evaluateLoop(coefficients, root, 1, 0, 1) = 0

(* --------------------------- polynomial inputs ------------------------- *)

FieldElements == 0..(bn_254_fp - 1)

SeqsUpTo(S, n) == UNION {[1..k -> S] : k \in 0..n}

\* Caller-supplied polynomials: non-empty sequences of canonical elements.
PolyInputs == SeqsUpTo(FieldElements, MaxPolyLen) \ {<<>>}

RootInputs == SeqsUpTo(FieldElements, MaxRoots)

\* The first occurrence of r dropped from the sequence s.
RECURSIVE RemoveFirst(_, _)
RemoveFirst(s, r) ==
    IF s = <<>> THEN <<>>
    ELSE IF Head(s) = r THEN Tail(s)
    ELSE <<Head(s)>> \o RemoveFirst(Tail(s), r)

Range(s) == {s[i] : i \in 1..Len(s)}

\* The last call on the polynomial: before is the polynomial the call was
\* given, and undoes, for a removeRoot that directly follows an addRoot of
\* the same root, the polynomial that addRoot was given (<<>> otherwise).
PolyCall(op, arg, tag, before, undoes) ==
    [op |-> op, arg |-> arg, tag |-> tag, before |-> before,
     undoes |-> undoes]

NoCall == PolyCall("none", 0, "none", <<>>, <<>>)

PolyInit ==
    /\ poly \in PolyInputs
    /\ fed = <<>>
    /\ rooted = (poly = initial_polynomial)
    /\ polyHist = NoCall

(* -------------------------- polynomial actions ------------------------- *)

\* interpolatePolynomial reads nothing but its argument, so calling it
\* before any other call reaches every polynomial it can return.
Interpolate(roots) ==
    /\ polyHist = NoCall
    /\ poly' = interpolatePolynomial(roots)
    /\ fed' = roots
    /\ rooted' = TRUE
    /\ polyHist' = PolyCall("interpolatePolynomial", 0, "ok", <<>>, <<>>)
    /\ UNCHANGED <<treeVars, batchVars, proof>>

\* A caller's polynomial grows to MaxPolyLen + 1 coefficients, a product of
\* roots to MaxGrownLen + 1.
AddRoot(newRoot) ==
    /\ \/ Len(poly) <= MaxPolyLen
       \/ rooted /\ Len(poly) <= MaxGrownLen
    /\ poly' = addRoot(poly, newRoot)
    /\ fed' = IF rooted THEN Append(fed, newRoot) ELSE fed
    /\ UNCHANGED rooted
    /\ polyHist' = PolyCall("addRoot", newRoot, "ok", poly, <<>>)
    /\ UNCHANGED <<treeVars, batchVars, proof>>

RemoveRoot(rootToRemove) ==
    LET res == removeRoot(poly, rootToRemove)
    IN  /\ poly' = IF res.tag = "ok" THEN res.value ELSE res.oldPoly
        /\ fed' = IF res.tag = "ok" /\ rooted
                  THEN RemoveFirst(fed, rootToRemove) ELSE fed
        /\ rooted' = IF res.tag = "ok"
                     THEN rooted /\ rootToRemove \in Range(fed)
                     ELSE rooted
        /\ polyHist' =
               PolyCall("removeRoot", rootToRemove, res.tag, poly,
                        IF polyHist.op = "addRoot" /\ polyHist.arg = rootToRemove
                        THEN polyHist.before ELSE <<>>)
        /\ UNCHANGED <<treeVars, batchVars, proof>>

PolyIdle ==
    /\ poly = initial_polynomial
    /\ fed = <<>>
    /\ rooted = TRUE
    /\ polyHist = NoCall

(* ----------------- benchmark_poly_helper.js: batches ------------------- *)

RECURSIVE helper_addRootLoop(_, _, _, _)
helper_addRootLoop(oldPoly, newRoot, i, newPoly) ==
    IF i >= Len(oldPoly) THEN newPoly
    ELSE
        LET shifted ==
                [newPoly EXCEPT ![i + 2] = mod(newPoly[i + 2] + oldPoly[i + 1])]
            scaled ==
                [shifted EXCEPT
                    ![i + 1] = mod(shifted[i + 1]
                                   - mod(oldPoly[i + 1] * newRoot))]
        IN  helper_addRootLoop(oldPoly, newRoot, i + 1, scaled)

\* addRoot of benchmark_poly_helper.js.
\* The helper's addRoot multiplying by (x + newRoot).
helper_addRoot_plus(oldPoly, newRoot) ==
    addRootLoop_plus(oldPoly, newRoot, 0, Zeros(Len(oldPoly) + 1))

helper_addRoot(oldPoly, newRoot) ==
    helper_addRootLoop(oldPoly, newRoot, 0, Zeros(Len(oldPoly) + 1))

\* The scan with <= in place of <.
RECURSIVE firstFit_offByOne(_, _)
firstFit_offByOne(currentRoots, i) ==
    IF i > Len(currentRoots) THEN 0
    ELSE IF Len(currentRoots[i]) <= MAX_POLY_DEGREE THEN i
    ELSE firstFit_offByOne(currentRoots, i + 1)

\* The scan "try to fit in existing batch": the 1-based position of the
\* first batch with room at or after position i, 0 when there is none.
RECURSIVE firstFit(_, _)
firstFit(currentRoots, i) ==
    IF i > Len(currentRoots) THEN 0
    ELSE IF Len(currentRoots[i]) < MAX_POLY_DEGREE THEN i
    ELSE firstFit(currentRoots, i + 1)

\* userMap.set(secret.toString(), batchIndex)
mapSet(map, secret, batchIndex) == (toString(secret) :> batchIndex) @@ map

\* placeSecret opening a new batch at the front of the table.
placeSecret_prepend(st, secret) ==
    LET i == firstFit(st.batchRoots, 1)
    IN  IF i # 0
        THEN [batches |->
                  [st.batches EXCEPT ![i] = helper_addRoot(st.batches[i], secret)],
              batchRoots |->
                  [st.batchRoots EXCEPT ![i] = Append(st.batchRoots[i], secret)],
              userMap |-> mapSet(st.userMap, secret, i - 1)]
        ELSE
            [batches |-> <<helper_addRoot(<<1>>, secret)>> \o st.batches,
             batchRoots |-> <<<<secret>>>> \o st.batchRoots,
             userMap |-> mapSet(st.userMap, secret, 0)]

\* placeSecret recording the table length instead of the new batch's index.
placeSecret_lengthIndex(st, secret) ==
    LET i == firstFit(st.batchRoots, 1)
    IN  IF i # 0
        THEN [batches |->
                  [st.batches EXCEPT ![i] = helper_addRoot(st.batches[i], secret)],
              batchRoots |->
                  [st.batchRoots EXCEPT ![i] = Append(st.batchRoots[i], secret)],
              userMap |-> mapSet(st.userMap, secret, i - 1)]
        ELSE
            LET currentRoots == Append(st.batchRoots, <<secret>>)
            IN  [batches |-> Append(st.batches, helper_addRoot(<<1>>, secret)),
                 batchRoots |-> currentRoots,
                 userMap |-> mapSet(st.userMap, secret, Len(currentRoots))]

\* The body of "for (const secret of newSecrets)" for one secret; st holds
\* currentBatches, currentRoots and userMap.  Batch indices are 0-based.
placeSecret(st, secret) ==
    LET i == firstFit(st.batchRoots, 1)
    IN  IF i # 0
        THEN [batches |->
                  [st.batches EXCEPT ![i] = helper_addRoot(st.batches[i], secret)],
              batchRoots |->
                  [st.batchRoots EXCEPT ![i] = Append(st.batchRoots[i], secret)],
              userMap |-> mapSet(st.userMap, secret, i - 1)]
        ELSE
            LET newBatchRoots == <<secret>>
                newBatchPoly == helper_addRoot(<<1>>, secret)
                currentRoots == Append(st.batchRoots, newBatchRoots)
            IN  [batches |-> Append(st.batches, newBatchPoly),
                 batchRoots |-> currentRoots,
                 userMap |-> mapSet(st.userMap, secret, Len(currentRoots) - 1)]

RECURSIVE addSecretsLoop(_, _, _)
addSecretsLoop(st, newSecrets, k) ==
    IF k > Len(newSecrets) THEN st
    ELSE addSecretsLoop(placeSecret(st, newSecrets[k]), newSecrets, k + 1)

addSecretsToBatches(bs, rs, map, newSecrets) ==
    addSecretsLoop([batches |-> bs, batchRoots |-> rs, userMap |-> map],
                   newSecrets, 1)

\* The caller's arguments after the call: batches was copied by [...batches]
\* and each root list by [...r], while userMap.set wrote to the map passed in.
addSecretsArguments(bs, rs, map, newSecrets) ==
    [batches |-> bs,
     batchRoots |-> rs,
     userMap |-> addSecretsToBatches(bs, rs, map, newSecrets).userMap]

(* ------------ benchmark_poly_helper.js: generateProverToml ------------- *)

\* realPoseidon2Hash of polynomial/utils/test_data_generator.js: the inputs
\* are brought into [0, p) and handed to the external primitive.
realPoseidon2Hash(inputs) ==
    poseidon2Hash([i \in 1..Len(inputs) |-> Atom(toPositiveField(inputs[i]))])

\* while (paddedPoly.length <= MAX_POLY_DEGREE) paddedPoly.push(0n)
RECURSIVE padLoop(_)
padLoop(paddedPoly) ==
    IF Len(paddedPoly) <= MAX_POLY_DEGREE
    THEN padLoop(Append(paddedPoly, 0))
    ELSE paddedPoly

\* A padding loop that stops one coefficient early.
RECURSIVE padLoop_short(_)
padLoop_short(paddedPoly) ==
    IF Len(paddedPoly) < MAX_POLY_DEGREE
    THEN padLoop_short(Append(paddedPoly, 0))
    ELSE paddedPoly

generateProverToml_short(batchPoly, secret, verifierKey) ==
    LET paddedPoly == padLoop_short(batchPoly)
    IN  [polynomial |-> [i \in 1..Len(paddedPoly) |-> toString(paddedPoly[i])],
         paddedPoly |-> paddedPoly,
         polynomialHash |-> realPoseidon2Hash(paddedPoly),
         nullifier |-> realPoseidon2Hash(<<secret, verifierKey>>)]

\* The value returned, with the polynomial line of proverToml kept as the
\* sequence of the decimal strings it lists.
generateProverToml(batchPoly, secret, verifierKey) ==
    LET paddedPoly == padLoop(batchPoly)
    IN  [polynomial |-> [i \in 1..Len(paddedPoly) |-> toString(paddedPoly[i])],
         paddedPoly |-> paddedPoly,
         polynomialHash |-> realPoseidon2Hash(paddedPoly),
         nullifier |-> realPoseidon2Hash(<<secret, verifierKey>>)]

(* ------------------------------ batch inputs --------------------------- *)

\* Verifier keys handed to generateProverToml.
VerifierKeys == {1}

\* The last call of the helper: its name, its argument (newSecrets, or the
\* batch polynomial), for generateProverToml what it returned, and what the
\* arrays and the map the caller passed hold once the call is over.
BatchCall(op, arg, ret, argsAfter) ==
    [op |-> op, arg |-> arg, ret |-> ret, argsAfter |-> argsAfter]

Secrets == 0..MaxSecret

SecretInputs == SeqsUpTo(Secrets, MaxNewSecrets)

RECURSIVE SumLen(_)
SumLen(ss) == IF ss = <<>> THEN 0 ELSE Len(Head(ss)) + SumLen(Tail(ss))

BatchInit ==
    /\ batches = <<>>
    /\ batchRoots = <<>>
    /\ userMap = <<>>
    /\ batchOut = BatchCall("none", <<>>, <<>>, <<>>)

(* ------------------------------ batch actions -------------------------- *)

\* One call, fed with the table and map the previous call returned.
AddSecretsToBatches(newSecrets) ==
    /\ SumLen(batchRoots) + Len(newSecrets) <= MaxTotalRoots
    /\ LET res == addSecretsToBatches(batches, batchRoots, userMap, newSecrets)
       IN  /\ batches' = res.batches
           /\ batchRoots' = res.batchRoots
           /\ userMap' = res.userMap
           /\ batchOut' =
                  BatchCall("addSecretsToBatches", newSecrets, <<>>,
                            addSecretsArguments(batches, batchRoots, userMap,
                                                newSecrets))
    /\ UNCHANGED <<treeVars, polyVars, proof>>

\* generateProverToml for the batch at 0-based index b.
GenerateProverToml(b, secret, verifierKey) ==
    /\ b < Len(batches)
    /\ batchOut' = BatchCall("generateProverToml", batches[b + 1],
                             generateProverToml(batches[b + 1], secret,
                                                verifierKey),
                             batches[b + 1])
    /\ UNCHANGED <<batches, batchRoots, userMap>>
    /\ UNCHANGED <<treeVars, polyVars, proof>>

(* --------------------- benchmark.js: runBenchmark ---------------------- *)

\* USER_COUNTS = [128, 256, 512, ...], scaled to the tree of the model.
USER_COUNTS == <<1, 2, 3>>

\* existingUsers (their secrets), the rounds of the loop over TARGET_COUNTS
\* that are over, and the count of the last of them.
BenchState(users, round, count) ==
    [users |-> users, round |-> round, count |-> count]

BenchInit ==
    \E users \in SeqsUpTo(Secrets, MaxFileUsers) :
        bench = BenchState(users, 0, 0)

BenchIdle == bench = BenchState(<<>>, 0, 0)

\* createIncrementalIMT of benchmark_imt_helper.js on the tree class of
\* test_data_generator.js: insert(hashLeaf(secret)) for every new secret.
RECURSIVE createIncrementalIMT(_, _, _)
createIncrementalIMT(tree, newSecrets, k) ==
    IF k > Len(newSecrets) THEN tree
    ELSE
        LET leaf == hashLeaf(Atom(newSecrets[k]))
            index == tree.nextIndex
            lvs == setLeaf(tree.leaves, index, leaf)
        IN  createIncrementalIMT(
                [leaves |-> lvs,
                 nodes |-> updatePath(lvs, tree.nodes, index),
                 nextIndex |-> index + 1],
                newSecrets, k + 1)

\* generateProverToml of benchmark_imt_helper.js.
imt_generateProverToml(tree, userIndex, secret, verifierKey) ==
    LET mp == merklePathOf(tree.leaves, tree.nodes, userIndex)
    IN  [merkleRoot |-> getRootOf(tree.nodes, tree.nextIndex),
         merklePath |-> mp.path,
         pathIndices |-> mp.pathIndices,
         nullifier |-> realPoseidon2Hash(<<secret, verifierKey>>)]

\* The closure handed to measureCircuit for the polynomial: the batch is
\* looked up through POLY_USER_MAP, and generateProverToml spreads it.
poly_inputGenFn(bs, map, secret, verifierKey) ==
    LET secretStr == toString(secret)
    IN  IF secretStr \in DOMAIN map /\ map[secretStr] < Len(bs)
        THEN LET batch == bs[map[secretStr] + 1]
             IN  BatchCall("generateProverToml", batch,
                           generateProverToml(batch, secret, verifierKey),
                           batch)
        ELSE BatchCall("generateProverToml", undefined, "TypeError", undefined)

\* One round of the loop over TARGET_COUNTS with one sampled user: the new
\* users are generated and saved, both structures take the new secrets, and
\* the inputs of one proof are generated for each system.
runBenchmark ==
    /\ bench.round < Len(USER_COUNTS)
    /\ LET count == USER_COUNTS[bench.round + 1]
           needed == count - Len(bench.users)
       IN  \E newSecrets \in [1..(IF needed <= 0 THEN 0 ELSE needed) -> Secrets],
              userIdx \in 0..(count - 1),
              verifierKey \in VerifierKeys :
               LET existingUsers == bench.users \o newSecrets
                   allSecrets == SubSeq(existingUsers, 1, count)
                   tree == createIncrementalIMT(
                               [leaves |-> leaves, nodes |-> nodes,
                                nextIndex |-> nextIndex], newSecrets, 1)
                   polyState == addSecretsToBatches(batches, batchRoots,
                                                    userMap, newSecrets)
                   secret == allSecrets[userIdx + 1]
               IN  /\ bench' = BenchState(existingUsers, bench.round + 1, count)
                   /\ leaves' = tree.leaves
                   /\ nodes' = tree.nodes
                   /\ nextIndex' = tree.nextIndex
                   /\ treeOut' = Outcome("generateProverToml", userIdx, "none",
                                         imt_generateProverToml(tree, userIdx,
                                             secret, verifierKey))
                   /\ mixCalls' = merklePathMixes(tree.leaves, userIdx)
                   /\ batches' = polyState.batches
                   /\ batchRoots' = polyState.batchRoots
                   /\ userMap' = polyState.userMap
                   /\ batchOut' = poly_inputGenFn(polyState.batches,
                                                  polyState.userMap, secret,
                                                  verifierKey)
    /\ UNCHANGED <<polyVars, proof, upd>>

(* ---------------------------- specifications --------------------------- *)

TreeNext ==
    \/ \E leaf \in LeafValues : Insert(leaf)
    \/ \E index \in IndexInputs, newLeaf \in LeafValues : Update(index, newLeaf)
    \/ \E index \in IndexInputs : Delete(index)
    \/ \E index \in IndexInputs : GetMerklePath(index)

GenNext ==
    \/ \E leaf \in LeafValues : gen_insert(leaf)
    \/ \E index \in IndexInputs : gen_getMerklePath(index)

StepNext ==
    \/ \E leaf \in LeafValues : step_insert(leaf)
    \/ \E index \in IndexInputs, newLeaf \in LeafValues :
           step_update(index, newLeaf)
    \/ step_updatePath
    \/ step_return
    \/ \E index \in IndexInputs : step_read(index)

BenchNext == runBenchmark

PolyNext ==
    \/ \E roots \in RootInputs : Interpolate(roots)
    \/ \E newRoot \in FieldElements : AddRoot(newRoot)
    \/ \E rootToRemove \in FieldElements : RemoveRoot(rootToRemove)

VerifyNext == VerifyMerkleProof

BatchNext ==
    \/ \E newSecrets \in SecretInputs : AddSecretsToBatches(newSecrets)
    \/ \E b \in 0..(MaxTotalRoots - 1), secret \in Secrets,
          verifierKey \in VerifierKeys :
           GenerateProverToml(b, secret, verifierKey)

\* Only the tree is in use: the polynomial and the batch table stay idle.
InitTree == TreeInit /\ PolyIdle /\ BatchInit /\ ProofIdle /\ BenchIdle

InitPoly == TreeInit /\ PolyInit /\ BatchInit /\ ProofIdle /\ BenchIdle

\* benchmark.js starts: IMT_TREE is null, the batch table and the map are
\* empty, and the users file holds what an earlier run left.
InitBench == TreeInit /\ PolyIdle /\ BatchInit /\ ProofIdle /\ BenchInit

\* Only verifyMerkleProof is in use, on arguments a caller made up.
InitVerify == TreeInit /\ PolyIdle /\ BatchInit /\ ProofInit /\ BenchIdle

\* merkle_tree.ts
SpecTree == InitTree /\ [][TreeNext]_vars

\* The tree of test_data_generator.js
SpecGen == InitTree /\ [][GenNext]_vars

\* merkle_tree.ts with readers admitted between the levels of updatePath
SpecSteps == InitTree /\ [][StepNext]_vars

\* runBenchmark of benchmark.js
SpecBench == InitBench /\ [][BenchNext]_vars

\* polynomial_equation.ts
SpecPoly == InitPoly /\ [][PolyNext]_vars

\* verifyMerkleProof of merkle_tree.ts as a standalone function
SpecVerify == InitVerify /\ [][VerifyNext]_vars

\* benchmark_poly_helper.js
SpecBatch == InitTree /\ [][BatchNext]_vars

(* -------------------------------- claims ------------------------------- *)

Populated == 0..(nextIndex - 1)

ProofVerifies(leaf, index, mp) ==
    verifyMerkleProof(leaf, index, mp.path, mp.pathIndices, getRoot)

\* C1: after any sequence of insert, update and delete, the path that
\* getMerklePath returns for a populated index verifies the leaf stored at
\* that index against getRoot().
C1_PathsVerify ==
    \A i \in Populated : ProofVerifies(leaves[i + 1], i, getMerklePath(i))

\* A full tree whose last call was a successful update or delete.
C1_Witness ==
    /\ nextIndex = MAX_LEAVES
    /\ treeOut.op \in {"update", "delete"}
    /\ treeOut.err = "none"
    /\ \E i \in Populated : leaves[i + 1] = getZeroValue
    /\ \E i \in Populated : leaves[i + 1] # getZeroValue
    /\ leaves[1] # leaves[2]

\* C2: a polynomial built from [1] by interpolatePolynomial or by successive
\* addRoot calls evaluates to 0 at every root fed into it.
C2_RootsEvaluateToZero ==
    rooted => \A k \in 1..Len(fed) : verifyPolynomial(poly, fed[k])

\* Three roots, two of them different, the last one added by addRoot.
C2_Witness ==
    /\ rooted
    /\ polyHist.op = "addRoot"
    /\ Len(fed) = 3
    /\ fed[1] # fed[3]

\* C3: removeRoot(addRoot(P, r), r) succeeds and returns P, coefficient by
\* coefficient, for every non-empty P and every field element r.
C3_AddRemoveRoundTrip ==
    (polyHist.op = "removeRoot" /\ polyHist.undoes # <<>>) =>
        /\ polyHist.tag = "ok"
        /\ Len(poly) = Len(polyHist.undoes)
        /\ \A i \in 1..Len(poly) : poly[i] = polyHist.undoes[i]

\* A round trip on a polynomial of degree 2 that is not monic.
C3_Witness ==
    /\ polyHist.op = "removeRoot"
    /\ Len(polyHist.undoes) = 3
    /\ polyHist.undoes[3] \notin {0, 1}
    /\ polyHist.arg > 1

\* C4: removeRoot(P, r) on P of degree >= 1 with P(r) # 0 returns null and
\* leaves the coefficient sequence it was given unchanged.
C4_NotARootRejected ==
    ( /\ polyHist.op = "removeRoot"
      /\ Len(polyHist.before) >= 2
      /\ ~verifyPolynomial(polyHist.before, polyHist.arg) ) =>
        /\ polyHist.tag = "null"
        /\ poly = polyHist.before

\* A rejected removal from a polynomial of degree 2.
C4_Witness ==
    /\ polyHist.op = "removeRoot"
    /\ polyHist.tag = "null"
    /\ Len(polyHist.before) = 3
    /\ poly = polyHist.before

\* C5: every batch except at most the last holds exactly MAX_POLY_DEGREE
\* roots, and no batch holds more.
C5_BatchesFull ==
    /\ \A b \in 1..(Len(batchRoots) - 1) :
           Len(batchRoots[b]) = MAX_POLY_DEGREE
    /\ \A b \in 1..Len(batchRoots) : Len(batchRoots[b]) <= MAX_POLY_DEGREE

\* Two full batches and a partly filled last one, after several calls.
C5_Witness ==
    /\ Len(batchRoots) >= 3
    /\ Len(batchRoots[Len(batchRoots)]) < MAX_POLY_DEGREE
    /\ batchOut.op = "addSecretsToBatches"
    /\ Len(batchOut.arg) = MaxNewSecrets

AllRoots == UNION {Range(batchRoots[b]) : b \in 1..Len(batchRoots)}

\* The 0-based indices of the batches whose root list contains r.
BatchesOf(r) == {b \in 0..(Len(batchRoots) - 1) : r \in Range(batchRoots[b + 1])}

Max(S) == CHOOSE m \in S : \A x \in S : x <= m

MapDomainAgrees ==
    /\ DOMAIN userMap = {toString(r) : r \in AllRoots}
    /\ Cardinality(DOMAIN userMap) = Cardinality(AllRoots)

\* C6 as stated: the map has one entry per distinct root and maps r to b if
\* and only if r appears in the root list of batch b.
C6_MapAgreesExactly ==
    /\ MapDomainAgrees
    /\ \A r \in Secrets : \A b \in 0..(Len(batchRoots) - 1) :
           (toString(r) \in DOMAIN userMap /\ userMap[toString(r)] = b)
               <=> r \in Range(batchRoots[b + 1])

\* C6 amended: the map has one entry per distinct root and maps r to the
\* highest-indexed batch whose root list contains r (its last insertion).
C6_MapNamesLastBatch ==
    /\ MapDomainAgrees
    /\ \A r \in AllRoots : userMap[toString(r)] = Max(BatchesOf(r))

\* A root inserted twice, into two batches; the map names the later one.
C6_Witness ==
    \E r \in AllRoots :
        /\ Cardinality(BatchesOf(r)) >= 2
        /\ userMap[toString(r)] = Max(BatchesOf(r))
        /\ userMap[toString(r)] >= 1

TreeUnchanged ==
    /\ leaves' = leaves
    /\ nodes' = nodes
    /\ nextIndex' = nextIndex
    /\ getRoot' = getRoot

\* C7: insert on a tree that holds 2^depth leaves fails with TreeFull and
\* leaves the leaf array, the stored nodes, the leaf count and the root as
\* they were.
C7_FullInsertFails ==
    [][(treeOut'.op = "insert" /\ nextIndex >= MAX_LEAVES) =>
           (treeOut'.err = "TreeFull" /\ TreeUnchanged)]_vars

\* C8: update, delete and getMerklePath with an index that is negative or
\* >= the leaf count fail with IndexOutOfRange and change nothing.
C8_BadIndexFails ==
    [][( /\ treeOut'.op \in {"update", "delete", "getMerklePath"}
         /\ (treeOut'.arg < 0 \/ treeOut'.arg >= nextIndex) ) =>
           (treeOut'.err = "IndexOutOfRange" /\ TreeUnchanged)]_vars

RootIsZeroHash == getRoot = ZERO_HASHES[TREE_DEPTH]

RootIsStoredNode ==
    /\ getNodeKey(TREE_DEPTH, 0) \in DOMAIN nodes
    /\ getRoot = nodes[getNodeKey(TREE_DEPTH, 0)]

\* C9 as stated: getRoot() equals zero[depth] if and only if the tree holds
\* zero leaves; otherwise it equals the stored node at (depth, 0).
C9_ZeroRootIffEmpty ==
    /\ RootIsZeroHash <=> nextIndex = 0
    /\ nextIndex # 0 => RootIsStoredNode

\* C9 amended: getRoot() equals zero[depth] when the tree holds zero leaves;
\* otherwise it equals the stored node at (depth, 0), which is zero[depth]
\* exactly when every populated leaf is mix([0]).
C9_ZeroRootIffAllZero ==
    /\ nextIndex = 0 => RootIsZeroHash
    /\ nextIndex # 0 => RootIsStoredNode
    /\ RootIsZeroHash <=> \A i \in Populated : leaves[i + 1] = getZeroValue

\* A tree that holds leaves, all deleted, whose root is zero[depth].
C9_Witness ==
    /\ nextIndex >= 2
    /\ treeOut.op = "delete"
    /\ treeOut.err = "none"
    /\ RootIsZeroHash
    /\ RootIsStoredNode

\* Values a tampered path may carry in place of a sibling.
SiblingValues ==
    LeafValues \cup {ZERO_HASHES[l] : l \in 0..TREE_DEPTH}
        \cup {getRoot, Atom(0)}

\* C10: in a path that verifies against the root, replacing one sibling by
\* a different value, or flipping one direction bit, makes the proof fail.
C10_TamperRejected ==
    \A i \in Populated :
        LET mp == getMerklePath(i)
            leaf == leaves[i + 1]
        IN  ProofVerifies(leaf, i, mp) =>
                \A k \in 1..TREE_DEPTH :
                    /\ \A v \in SiblingValues \ {mp.path[k]} :
                           ~ProofVerifies(leaf, i,
                               [mp EXCEPT !.path[k] = v])
                    /\ ~ProofVerifies(leaf, i,
                           [mp EXCEPT !.pathIndices[k] = 1 - @])

\* A valid path whose leaf equals its sibling, so that only the index check
\* tells the flipped direction bit apart.
C10_Witness ==
    /\ nextIndex >= 3
    /\ leaves[1] = leaves[2]
    /\ leaves[1] # getZeroValue
    /\ ProofVerifies(leaves[1], 0, getMerklePath(0))

\* The last call was a getMerklePath that returned a path.
PathReturned == treeOut.op = "getMerklePath" /\ treeOut.err = "none"

\* The index of the ancestor of leaf index that lies h levels above it.
Halved(index, h) == index \div (2 ^ h)

\* C11 as stated: the direction bit at level i of getMerklePath(index) is 1
\* iff the index after depth-1-i halvings is odd.
C11_BitAfterReverseHalvings ==
    PathReturned =>
        \A i \in 0..(TREE_DEPTH - 1) :
            (treeOut.ret.pathIndices[i + 1] = 1)
                <=> (Halved(treeOut.arg, TREE_DEPTH - 1 - i) % 2 = 1)

\* C11 amended: the direction bit at level i of getMerklePath(index) is 1
\* iff the node at that level is a right child, that is iff the index after
\* i halvings is odd; it is 0 otherwise.
C11_BitAfterHalvings ==
    PathReturned =>
        /\ Len(treeOut.ret.pathIndices) = TREE_DEPTH
        /\ \A i \in 0..(TREE_DEPTH - 1) :
               /\ treeOut.ret.pathIndices[i + 1] \in {0, 1}
               /\ (treeOut.ret.pathIndices[i + 1] = 1)
                      <=> (Halved(treeOut.arg, i) % 2 = 1)

\* A path returned for an index whose bits differ between the two readings.
C11_Witness ==
    /\ PathReturned
    /\ treeOut.arg = MAX_LEAVES - 2
    /\ treeOut.ret.pathIndices[1] = 0
    /\ treeOut.ret.pathIndices[TREE_DEPTH] = 1

\* The number whose binary digits are bits, least significant first.
RECURSIVE LittleEndian(_)
LittleEndian(bits) ==
    IF bits = <<>> THEN 0 ELSE Head(bits) + 2 * LittleEndian(Tail(bits))

WrongLength ==
    Len(proof.path) # TREE_DEPTH \/ Len(proof.pathIndices) # TREE_DEPTH

\* C12: verifyMerkleProof returns false when siblings or directionBits do
\* not have length depth, and when the index differs from directionBits read
\* as a little-endian number, whatever leaf, siblings and root are.
C12_IndexMismatchRejected ==
    (proof.called /\ (WrongLength
                      \/ proof.index # LittleEndian(proof.pathIndices)))
        => ~proof.result

\* A rejected call whose leaf and path do hash to the root: only the index
\* disagrees with the direction bits.
C12_Witness ==
    /\ proof.called
    /\ ~proof.result
    /\ ~WrongLength
    /\ replayPath(proof.leaf, proof.path, proof.pathIndices, 1) = proof.root
    /\ proof.index # LittleEndian(proof.pathIndices)
    /\ proof.index \in 0..(MAX_LEAVES - 1)

Succeeded(op) == treeOut'.op = op /\ treeOut'.err = "none"

\* The leaves other than the one at index are what they were.
OtherLeavesKept(index) ==
    /\ Len(leaves') = Len(leaves)
    /\ \A j \in 0..(Len(leaves) - 1) :
           j # index => leaves'[j + 1] = leaves[j + 1]

\* A successful insert writes at an index no leaf has held before.
InsertTakesFreshIndex ==
    Succeeded("insert") =>
        /\ treeOut'.arg >= nextIndex
        /\ \A j \in 0..(nextIndex - 1) : leaves'[j + 1] = leaves[j + 1]

\* C13: delete(index) on a populated index leaves the state update(index,
\* mix([0])) would: the leaf at index is mix([0]), the leaf count and every
\* other leaf are unchanged, the ancestors are recomputed, and no later
\* insert writes at an index that has been populated.
C13_DeleteIsZeroUpdate ==
    [][/\ Succeeded("delete") =>
              LET index == treeOut'.arg
              IN  /\ index \in 0..(nextIndex - 1)
                  /\ leaves'[index + 1] = poseidon2(<<Atom(0)>>)
                  /\ nextIndex' = nextIndex
                  /\ OtherLeavesKept(index)
                  /\ nodes' = updatePath(leaves', nodes, index)
       /\ nextIndex' >= nextIndex
       /\ InsertTakesFreshIndex]_vars

\* A delete has zeroed a leaf that is not the last while another leaf keeps
\* a member's value.
C13_Witness ==
    /\ treeOut.op = "delete"
    /\ treeOut.err = "none"
    /\ treeOut.arg < nextIndex - 1
    /\ leaves[treeOut.arg + 1] = getZeroValue
    /\ \E j \in 1..Len(leaves) : leaves[j] = hashLeaf(Atom(1))

\* Every index below the leaf count holds a leaf and none above does.
NoGaps ==
    /\ Len(leaves) = nextIndex
    /\ \A j \in 1..Len(leaves) : leaves[j] # undefined

\* The index a successful call of the previous step wrote at, or -1.
WrittenIndex ==
    IF treeOut'.err = "none" /\ treeOut'.op \in {"insert", "update", "delete"}
    THEN treeOut'.arg ELSE -1

\* C14: a successful insert returns the leaf count before the call and
\* raises the count by 1; a failed insert and every other operation leave
\* the count alone; indices below the count are all populated; and no
\* operation changes a leaf at an index other than the one it was given.
C14_InsertIndicesSequential ==
    [][/\ Succeeded("insert") =>
              /\ treeOut'.ret = <<nextIndex>>
              /\ nextIndex' = nextIndex + 1
              /\ Len(leaves') = Len(leaves) + 1
       /\ ~Succeeded("insert") =>
              /\ nextIndex' = nextIndex
              /\ Len(leaves') = Len(leaves)
       /\ NoGaps /\ NoGaps'
       /\ \A j \in 0..(nextIndex - 1) :
              j # WrittenIndex => leaves'[j + 1] = leaves[j + 1]]_vars

\* The last leaf of a full tree has been inserted and returned the last index.
C14_Witness ==
    /\ treeOut.op = "insert"
    /\ treeOut.err = "none"
    /\ treeOut.ret = <<MAX_LEAVES - 1>>
    /\ nextIndex = MAX_LEAVES

\* C15: removeRoot on a coefficient sequence of length <= 1 throws "Polynomial
\* degree too low" for every rootToRemove; it returns neither a polynomial
\* nor null, and the polynomial stays what it was.
C15_ConstantThrows ==
    /\ (polyHist.op = "removeRoot" /\ Len(polyHist.before) <= 1)
           => (polyHist.tag = "throw" /\ poly = polyHist.before)
    /\ \A rootToRemove \in FieldElements :
           removeRoot(<<>>, rootToRemove).tag = "throw"

\* removeRoot has thrown on a constant polynomial other than [1].
C15_Witness ==
    /\ polyHist.op = "removeRoot"
    /\ polyHist.tag = "throw"
    /\ Len(polyHist.before) = 1
    /\ polyHist.before # initial_polynomial

\* C16: addRoot always returns, one coefficient longer than its input; a
\* removeRoot that returns a polynomial returns one coefficient shorter; and
\* a polynomial reached from [1] by addRoot and successful removeRoot calls
\* stays such a product of its accumulated roots, is monic, and has as many
\* coefficients as accumulated roots plus one.
C16_MonicDegreeCountsRoots ==
    [][/\ polyHist'.op = "addRoot" =>
              /\ polyHist'.tag = "ok"
              /\ Len(poly') = Len(polyHist'.before) + 1
       /\ (polyHist'.op = "removeRoot" /\ polyHist'.tag = "ok") =>
              Len(poly') = Len(polyHist'.before) - 1
       /\ rooted => rooted'
       /\ rooted' =>
              /\ Len(poly') - 1 = Len(fed')
              /\ poly'[Len(poly')] = 1]_vars

\* A root has been removed from a product of at least two roots.
C16_Witness ==
    /\ rooted
    /\ polyHist.op = "removeRoot"
    /\ polyHist.tag = "ok"
    /\ Len(fed) >= 1
    /\ Len(poly) = Len(fed) + 1
    /\ poly[Len(poly)] = 1

\* addRoot called once per root, in order, starting from polynomial.
RECURSIVE AddRootFold(_, _, _)
AddRootFold(roots, k, polynomial) ==
    IF k > Len(roots) THEN polynomial
    ELSE AddRootFold(roots, k + 1, addRoot(polynomial, roots[k]))

\* The same with the addRoot of benchmark_poly_helper.js.
RECURSIVE HelperAddRootFold(_, _, _)
HelperAddRootFold(roots, k, polynomial) ==
    IF k > Len(roots) THEN polynomial
    ELSE HelperAddRootFold(roots, k + 1, helper_addRoot(polynomial, roots[k]))

Interpolated == polyHist.op = "interpolatePolynomial"

\* C17: interpolatePolynomial(roots) returns the coefficients that addRoot,
\* called once per root in the same order starting from [1], returns; this
\* holds for the addRoot of either file and for the interpolatePolynomial of
\* the test data generator.
C17_InterpolateIsAddRootFold ==
    Interpolated =>
        /\ poly = AddRootFold(fed, 1, initial_polynomial)
        /\ poly = HelperAddRootFold(fed, 1, initial_polynomial)
        /\ gen_interpolatePolynomial(fed) = AddRootFold(fed, 1, initial_polynomial)

\* A polynomial interpolated from the largest number of roots, two of them
\* different and non-zero.
C17_Witness ==
    /\ Interpolated
    /\ Len(fed) = MaxRoots
    /\ fed[1] # 0
    /\ fed[2] # 0
    /\ fed[1] # fed[2]
    /\ Len(poly) = MaxRoots + 1

IntInputs == (0 - MaxAbsInt)..MaxAbsInt

Canonical(x) == x \in 0..(bn_254_fp - 1)

AllCanonical(coefficients) ==
    \A i \in 1..Len(coefficients) : Canonical(coefficients[i])

\* C18: for every integer x, negative, zero or beyond p, mod(x) and
\* toPositiveField(x) are the one value of [0, p) congruent to x modulo p;
\* and every coefficient of a polynomial returned by addRoot, removeRoot or
\* either interpolatePolynomial lies in [0, p).
C18_Canonical ==
    /\ \A x \in IntInputs :
           /\ Canonical(mod(x))
           /\ mod(x) = x % bn_254_fp
           /\ toPositiveField(x) = x % bn_254_fp
    /\ polyHist.op # "none" => AllCanonical(poly)
    /\ Interpolated => AllCanonical(gen_interpolatePolynomial(fed))

\* addRoot has returned a constant term that the subtraction left negative
\* before mod brought it back into [0, p).
C18_Witness ==
    /\ polyHist.op = "addRoot"
    /\ JsRem(0 - mod(polyHist.before[1] * polyHist.arg), bn_254_fp) < 0
    /\ poly[1] = bn_254_fp - mod(polyHist.before[1] * polyHist.arg)
    /\ Canonical(poly[1])

\* The value of the polynomial with these coefficients at the point x.
Evaluate(coefficients, x) == evaluateLoop(coefficients, x, 1, 0, 1)

TomlGenerated == batchOut.op = "generateProverToml"

\* C19: for a batch polynomial of addSecretsToBatches, generateProverToml
\* lists exactly MAX_POLY_DEGREE + 1 coefficients, the batch coefficients
\* first and zeros after them, and the padded polynomial takes the value of
\* the batch polynomial at every point of the field.
C19_PaddedToCircuitLength ==
    TomlGenerated =>
        LET batchPoly == batchOut.arg
            out == batchOut.ret
        IN  /\ Len(out.polynomial) = MAX_POLY_DEGREE + 1
            /\ Len(out.paddedPoly) = MAX_POLY_DEGREE + 1
            /\ Len(batchPoly) <= MAX_POLY_DEGREE + 1
            /\ \A i \in 1..(MAX_POLY_DEGREE + 1) :
                   /\ out.paddedPoly[i] =
                          (IF i <= Len(batchPoly) THEN batchPoly[i] ELSE 0)
                   /\ out.polynomial[i] =
                          (IF i <= Len(batchPoly)
                           THEN toString(batchPoly[i]) ELSE <<"0">>)
            /\ \A x \in FieldElements :
                   Evaluate(out.paddedPoly, x) = Evaluate(batchPoly, x)

\* The polynomial of a batch that is not full has been padded.
C19_Witness ==
    /\ TomlGenerated
    /\ Len(batchOut.arg) >= 2
    /\ Len(batchOut.arg) < MAX_POLY_DEGREE + 1
    /\ Len(batchOut.ret.polynomial) = MAX_POLY_DEGREE + 1
    /\ batchOut.ret.polynomial[MAX_POLY_DEGREE + 1] = <<"0">>

\* The siblings of index 2 in a tree holding L0, L1, L2 and nothing else:
\* the empty leaf 3, the node over L0 and L1, and above them empty subtrees.
ThirdLeafSiblings ==
    [i \in 1..TREE_DEPTH |->
        IF i = 1 THEN ZERO_HASHES[0]
        ELSE IF i = 2 THEN poseidon2(<<leaves[1], leaves[2]>>)
        ELSE ZERO_HASHES[i - 1]]

ThirdLeafBits == [i \in 1..TREE_DEPTH |-> IF i = 2 THEN 1 ELSE 0]

PathOfThirdLeaf ==
    /\ PathReturned
    /\ treeOut.arg = 2
    /\ nextIndex = 3

\* C20: in a tree of depth 2 holding L0, L1, L2 at indices 0, 1, 2,
\* getMerklePath(2) returns the siblings [zero[0], mix(L0, L1)] and the
\* direction bits [0, 1], and verifyMerkleProof(L2, 2, siblings, bits,
\* getRoot()) is true; in a deeper tree the path goes on with the zero hashes
\* and bits 0.
C20_ThirdLeafPath ==
    /\ nextIndex = 0 => getRoot = ZERO_HASHES[TREE_DEPTH]
    /\ PathOfThirdLeaf =>
           /\ treeOut.ret.path = ThirdLeafSiblings
           /\ treeOut.ret.pathIndices = ThirdLeafBits
           /\ TREE_DEPTH = 2 =>
                  /\ treeOut.ret.path =
                         <<poseidon2(<<Atom(0)>>),
                           poseidon2(<<leaves[1], leaves[2]>>)>>
                  /\ treeOut.ret.pathIndices = <<0, 1>>
           /\ verifyMerkleProof(leaves[3], 2, treeOut.ret.path,
                                treeOut.ret.pathIndices, getRoot)

\* The path of the third leaf, a member's, asked of a tree whose first two
\* leaves differ.
C20_Witness ==
    /\ PathOfThirdLeaf
    /\ leaves[3] = hashLeaf(Atom(1))
    /\ leaves[1] # leaves[2]
    /\ treeOut.ret.pathIndices[2] = 1

\* interpolatePolynomial([1, 2, 3]) after addRoot(., 4).
FourRoots == addRoot(interpolatePolynomial(<<1, 2, 3>>), 4)

RemovedTwoOfFour ==
    /\ polyHist.op = "removeRoot"
    /\ polyHist.arg = 2
    /\ polyHist.before = FourRoots

\* C21: removeRoot(addRoot(interpolatePolynomial([1, 2, 3]), 4), 2) returns
\* a polynomial of degree 3 that evaluates to 0 at 1, 3 and 4 and to a
\* non-zero value at 2 and at every other field element.
C21_RootsOneThreeFour ==
    RemovedTwoOfFour =>
        /\ polyHist.tag = "ok"
        /\ Len(poly) = 4
        /\ \A x \in FieldElements :
               verifyPolynomial(poly, x) <=> x \in {1, 3, 4}

\* The three calls were made in the order the scenario gives.
C21_Witness ==
    /\ RemovedTwoOfFour
    /\ rooted
    /\ fed = <<1, 3, 4>>
    /\ polyHist.tag = "ok"
    /\ ~verifyPolynomial(poly, 2)

Mutated ==
    treeOut.op \in {"insert", "update", "delete"} /\ treeOut.err = "none"

\* C22: every insert, update and delete evaluates the hash exactly depth
\* times, wherever the leaf is and whether or not its sibling is populated.
C22_MutationCostsDepth == Mutated => mixCalls = TREE_DEPTH

Least(S) == CHOOSE x \in S : \A y \in S : x <= y

IsPrefix(a, b) == Len(a) <= Len(b) /\ SubSeq(b, 1, Len(a)) = a

\* The root lists after r goes to the lowest-indexed list that is not full,
\* or to a new list at the end when all are full.
PlacedByPolicy(table, r) ==
    LET open == {b \in 1..Len(table) : Len(table[b]) < MAX_POLY_DEGREE}
    IN  IF open = {} THEN Append(table, <<r>>)
        ELSE [table EXCEPT ![Least(open)] = Append(table[Least(open)], r)]

RECURSIVE AllPlacedByPolicy(_, _, _)
AllPlacedByPolicy(table, secrets, k) ==
    IF k > Len(secrets) THEN table
    ELSE AllPlacedByPolicy(PlacedByPolicy(table, secrets[k]), secrets, k + 1)

SecretsAdded == batchOut.op = "addSecretsToBatches"

\* C23: addSecretsToBatches puts each incoming root, in input order, into
\* the lowest-indexed batch holding fewer than MAX_POLY_DEGREE roots and
\* opens a batch at the end of the table, with the polynomial addRoot([1],
\* root), only when every batch is full; batches are never removed or
\* reordered, and the root list of a batch is a prefix of its later value.
C23_FirstFitAppendOnly ==
    [][SecretsAdded' =>
          /\ batchRoots' = AllPlacedByPolicy(batchRoots, batchOut'.arg, 1)
          /\ Len(batches') = Len(batchRoots')
          /\ Len(batchRoots') >= Len(batchRoots)
          /\ \A b \in 1..Len(batchRoots) :
                 IsPrefix(batchRoots[b], batchRoots'[b])
          /\ \A b \in (Len(batchRoots) + 1)..Len(batchRoots') :
                 /\ \A c \in 1..(b - 1) :
                        Len(batchRoots'[c]) = MAX_POLY_DEGREE
                 /\ batches'[b] =
                        HelperAddRootFold(Tail(batchRoots'[b]), 1,
                            helper_addRoot(<<1>>, Head(batchRoots'[b])))]_vars

\* The last secret of a full-length call opened a batch behind a full one.
C23_Witness ==
    /\ SecretsAdded
    /\ Len(batchOut.arg) = MaxNewSecrets
    /\ Len(batchRoots) >= 2
    /\ batchRoots[Len(batchRoots)] = <<batchOut.arg[Len(batchOut.arg)]>>
    /\ Len(batchRoots[Len(batchRoots) - 1]) = MAX_POLY_DEGREE

ReadDone == treeOut.op = "read"

\* The pair a reader obtained verifies the leaf it read.
ReadVerifies ==
    verifyMerkleProof(treeOut.ret.leaf, treeOut.arg, treeOut.ret.path,
                      treeOut.ret.pathIndices, treeOut.ret.root)

\* C24: a reader that runs while no mutation is in progress, other readers
\* or none around it, obtains a path and a root that verify the populated
\* leaf it asked for; a reader that runs between two levels of an insert or
\* update can obtain a pair that does not verify.
C24_QuiescentReadsVerify ==
    /\ (ReadDone /\ ~upd.active) => ReadVerifies
    /\ ~upd.active =>
           \A i \in Populated :
               ProofVerifies(leaves[i + 1], i, getMerklePath(i))

\* A reader ran between two levels of a mutation of another leaf and its
\* path does not verify against the root it read.
C24_Witness ==
    /\ ReadDone
    /\ upd.active
    /\ upd.level > 0
    /\ upd.level < TREE_DEPTH
    /\ treeOut.arg # upd.index
    /\ ~ReadVerifies

\* C25: after addSecretsToBatches the batches array, the batchRoots array
\* with each root list, and the userMap the caller passed hold what they
\* held before the call.
C25_ArgumentsUntouched ==
    [][SecretsAdded' =>
          batchOut'.argsAfter = [batches |-> batches,
                                 batchRoots |-> batchRoots,
                                 userMap |-> userMap]]_vars

\* The positions of the internal nodes: level 1..depth, index within the level.
NodePositions ==
    {pos \in (1..TREE_DEPTH) \X (0..(MAX_LEAVES - 1)) :
         pos[2] < 2 ^ (TREE_DEPTH - pos[1])}

Stored(level, i) == getNodeKey(level, i) \in DOMAIN nodes

\* The child (level, i) as updatePath reads it: storage first, then the
\* zero hash of the level.
ChildValue(level, i) ==
    IF level = 0 THEN Nullish(leafAt(leaves, i), poseidon2(<<Atom(0)>>))
    ELSE Nullish(getNode(nodes, level, i), zeroHashAt(level))

\* C26: a node (level, index) is absent from the node map only if no leaf
\* below it has been populated, and every stored node at level >= 1 is the
\* hash of its two children, each read from storage with the zero hash of
\* its level (mix([0]) for a leaf) as fallback; nothing else is stored.
C26_SparseNodesConsistent ==
    /\ \A pos \in NodePositions :
           LET level == pos[1]
               i == pos[2]
           IN  /\ ~Stored(level, i) => i * (2 ^ level) >= nextIndex
               /\ Stored(level, i) =>
                      nodes[getNodeKey(level, i)] =
                          poseidon2(<<ChildValue(level - 1, 2 * i),
                                      ChildValue(level - 1, 2 * i + 1)>>)
    /\ DOMAIN nodes \subseteq
           {getNodeKey(pos[1], pos[2]) : pos \in NodePositions}

\* Half of the tree is populated: the node over the other half is absent,
\* the node over this half and the root are stored.
C26_Witness ==
    /\ nextIndex = MAX_LEAVES \div 2
    /\ treeOut.op = "insert"
    /\ Stored(TREE_DEPTH - 1, 0)
    /\ ~Stored(TREE_DEPTH - 1, 1)
    /\ Stored(TREE_DEPTH, 0)

\* The node (level, i) of the full binary tree built from scratch over the
\* leaf array, every unpopulated position holding mix([0]).
RECURSIVE ReferenceNode(_, _)
ReferenceNode(level, i) ==
    IF level = 0
    THEN (IF i < Len(leaves) THEN leaves[i + 1] ELSE poseidon2(<<Atom(0)>>))
    ELSE poseidon2(<<ReferenceNode(level - 1, 2 * i),
                     ReferenceNode(level - 1, 2 * i + 1)>>)

\* C27: after any sequence of insert, update and delete with at least one
\* insert, getRoot() is the root of the full binary Merkle tree of the same
\* depth built from scratch over the current leaves, unpopulated positions
\* filled with mix([0]).
C27_RootIsReferenceRoot ==
    nextIndex >= 1 => getRoot = ReferenceNode(TREE_DEPTH, 0)

\* A delete in a tree that has one unpopulated position left.
C27_Witness ==
    /\ nextIndex = MAX_LEAVES - 1
    /\ treeOut.op = "delete"
    /\ treeOut.err = "none"
    /\ \E i \in Populated : leaves[i + 1] = hashLeaf(Atom(1))
    /\ getRoot = ReferenceNode(TREE_DEPTH, 0)

\* The leaf array read at any position, mix([0]) where nothing is populated.
LeafOrZero(index) == Nullish(leafAt(leaves, index), getZeroValue)

\* C28: with the siblings of a populated leaf and direction entries that are
\* any numbers of 0..MaxEntry, verifyMerkleProof(leaf, index, siblings,
\* pathIndices, getRoot()) returns true only if leaf is the leaf at index.
C28_SoundForAnyEntries ==
    \A i \in Populated, index \in 0..(MAX_LEAVES - 1),
       pathIndices \in [1..TREE_DEPTH -> 0..MaxEntry] :
        verifyMerkleProof(leaves[i + 1], index, getMerklePath(i).path,
                          pathIndices, getRoot)
            => leaves[i + 1] = LeafOrZero(index)

\* The users of the round that is over: positions below its count.
RoundUsers ==
    0..((IF bench.count < Len(bench.users) THEN bench.count
         ELSE Len(bench.users)) - 1)

\* C29: after every round, whatever the users file held at the start, each
\* user at a position below the count has the leaf mix([secret]) at that
\* index of the tree and an entry in POLY_USER_MAP that names an existing
\* batch, and generateProverToml was given a batch.
C29_UsersInBothStructures ==
    bench.round >= 1 =>
        /\ \A k \in RoundUsers :
               /\ leafAt(leaves, k) = poseidon2(<<Atom(bench.users[k + 1])>>)
               /\ toString(bench.users[k + 1]) \in DOMAIN userMap
               /\ userMap[toString(bench.users[k + 1])] \in 0..(Len(batches) - 1)
        /\ batchOut.arg # undefined

MappedSecrets == {r \in Secrets : toString(r) \in DOMAIN userMap}

\* C30: after any sequence of addSecretsToBatches calls from the empty
\* table, duplicates allowed, the batch the map names for a root exists and
\* its polynomial evaluates to 0 at that root, and every batch polynomial
\* has one coefficient more than its batch has roots.
C30_MappedRootsEvaluateToZero ==
    /\ \A r \in MappedSecrets :
           /\ userMap[toString(r)] \in 0..(Len(batches) - 1)
           /\ Evaluate(batches[userMap[toString(r)] + 1], r) = 0
    /\ Len(batches) = Len(batchRoots)
    /\ \A b \in 1..Len(batches) : Len(batches[b]) = Len(batchRoots[b]) + 1

\* A secret was added twice and sits in two batches; the map names the later.
C30_Witness ==
    /\ SecretsAdded
    /\ Cardinality(MappedSecrets) >= 2
    /\ \E r \in MappedSecrets :
           /\ r # 0
           /\ Cardinality(BatchesOf(r)) >= 2
           /\ Evaluate(batches[userMap[toString(r)] + 1], r) = 0

====
